---- MODULE Spec2Model ----
(***************************************************************************)
(* Model of the resource calendar of src/src/Calendar.tsx: date arithmetic,*)
(* the view partitioner, the event normalizer, the visible-event           *)
(* projection and the pointer-driven drag controller.                      *)
(*                                                                         *)
(* A Date is modelled by its local wall-clock reading: a record            *)
(* [valid, day, ms], day = number of local calendar days since 1 January   *)
(* of BaseYear, ms = milliseconds since local midnight.  An Invalid Date   *)
(* (time value NaN) is the record with valid = FALSE.  The local time zone *)
(* is taken to have no daylight-saving transitions, so a local day is      *)
(* always MsPerDay long.                                                   *)
(***************************************************************************)
EXTENDS Integers, Sequences, FiniteSets, TLC

VARIABLES
  view,        \* the view granularity shown
  activeDate,  \* the date the view is anchored on
  resources,   \* the `resources` prop
  events,      \* the `events` prop
  cellWidth,   \* per-day pixel width of the grid, a rational n / d
  drag,        \* the drag state: <<>> (null) or <<DragState>>
  ptr,         \* per pointer: "up", "down" or "captured" (down and captured
               \* by the event element it went down on)
  emitted,     \* the onEventChange calls made by the latest step, in order
  step         \* the latest step: [op, pointer, outcome, event, at]

vars == <<view, activeDate, resources, events, cellWidth, drag, ptr, emitted, step>>

----------------------------------------------------------------------------
(* Bounds of the model *)

\* number of calendar years after BaseYear the calendar tables cover
YearSpan == 3
\* longest event list given to the component
MaxEvents == 2
\* longest resource list given to the component
MaxResources == 2
\* largest pointer id
MaxPointer == 2
\* longest run of navigation steps in one direction that is followed back
NavSteps == 2

----------------------------------------------------------------------------
(* The civil calendar behind the native Date object *)

BaseYear == 2024 - 1

IsLeap(y) == y % 4 = 0 /\ (y % 100 # 0 \/ y % 400 = 0)

DaysInYear(y) == IF IsLeap(y) THEN 366 ELSE 365

\* m is a month index 0..11 as in the native Date
DaysInMonth(y, m) ==
  IF m = 1 THEN (IF IsLeap(y) THEN 29 ELSE 28)
  ELSE IF m \in {3, 5, 8, 10} THEN 30 ELSE 31

\* years the calendar tables cover
Years == (BaseYear - 2) .. (BaseYear + YearSpan + 2)

RECURSIVE DaysBeforeYear(_)
DaysBeforeYear(y) ==
  IF y = BaseYear THEN 0
  ELSE IF y > BaseYear THEN DaysBeforeYear(y - 1) + DaysInYear(y - 1)
  ELSE DaysBeforeYear(y + 1) - DaysInYear(y)

RECURSIVE DaysBeforeMonth(_, _)
DaysBeforeMonth(y, m) ==
  IF m = 0 THEN 0 ELSE DaysBeforeMonth(y, m - 1) + DaysInMonth(y, m - 1)

\* day number of the first day of month m of year y, tabulated
MonthStart ==
  [y \in (BaseYear - 3) .. (BaseYear + YearSpan + 3) |->
     [m \in 0..11 |-> DaysBeforeYear(y) + DaysBeforeMonth(y, m)]]

\* MakeDay of the native Date: month and day-of-month may lie outside their
\* ranges and roll over into the neighbouring months and years.
MakeDay(y, m, d) == MonthStart[y + (m \div 12)][m % 12] + d - 1

YearOfDay(n) ==
  CHOOSE y \in Years : MonthStart[y][0] <= n /\ n < MonthStart[y + 1][0]

MonthOfDay(n) ==
  LET y == YearOfDay(n)
  IN  CHOOSE m \in 0..11 :
        /\ MonthStart[y][m] <= n
        /\ n < MonthStart[y][m] + DaysInMonth(y, m)

----------------------------------------------------------------------------
(* Date values *)

MsPerHour == 60 * 60 * 1000
MsPerDay == 24 * MsPerHour

Invalid == [valid |-> FALSE, day |-> 0, ms |-> 0]

MkDate(n, t) == [valid |-> TRUE, day |-> n, ms |-> t]

\* new Date(y, m, d): local midnight of the (rolled-over) civil day
NewDate(y, m, d) == MkDate(MakeDay(y, m, d), 0)

getFullYear(d) == YearOfDay(d.day)
getMonth(d) == MonthOfDay(d.day)
getDate(d) == d.day - MakeDay(getFullYear(d), getMonth(d), 1) + 1
\* 0 = Sunday; 1 January 2023 was a Sunday
getDay(d) == d.day % 7

getHours(d) == d.ms \div MsPerHour
getMinutes(d) == (d.ms % MsPerHour) \div 60000
getSeconds(d) == (d.ms % 60000) \div 1000
getMilliseconds(d) == d.ms % 1000

\* comparisons of getTime() values: every comparison with NaN is false
TimeLT(a, b) ==
  /\ a.valid /\ b.valid
  /\ (a.day < b.day \/ (a.day = b.day /\ a.ms < b.ms))
TimeLE(a, b) ==
  /\ a.valid /\ b.valid
  /\ (a.day < b.day \/ (a.day = b.day /\ a.ms <= b.ms))
TimeGT(a, b) == TimeLT(b, a)

\* Values a caller may pass where the code takes `string | Date`, and the
\* `undefined` of an optional field.  A string is modelled by the numeric
\* fields it spells: <<y, m, d>> for "YYYY-MM-DD", <<y, m, d, h, mi>> for
\* "YYYY-MM-DDTHH:mm", <<>> for the empty string; anything else does not
\* parse.
UndefinedValue == [k |-> "undefined", d |-> Invalid, f |-> <<>>]
DateValue(d) == [k |-> "Date", d |-> d, f |-> <<>>]
StringValue(f) == [k |-> "string", d |-> Invalid, f |-> f]

\* `v ? ... : ...` on an optional `string | Date`
TruthyValue(v) == v.k = "Date" \/ (v.k = "string" /\ v.f # <<>>)

ParseDate(f) ==
  IF /\ Len(f) \in {3, 5}
     /\ f[1] \in Years
     /\ f[2] \in 1..12
     /\ f[3] \in 1..DaysInMonth(f[1], f[2] - 1)
     /\ (Len(f) = 5 => f[4] \in 0..23 /\ f[5] \in 0..59)
  THEN MkDate(MakeDay(f[1], f[2] - 1, f[3]),
              IF Len(f) = 5 THEN f[4] * MsPerHour + f[5] * 60000 ELSE 0)
  ELSE Invalid

toDate(v) == IF v.k = "Date" THEN v.d ELSE ParseDate(v.f)

startOfDay(d) == IF d.valid THEN MkDate(d.day, 0) ELSE Invalid

addDays(d, deltaDays) ==
  IF d.valid THEN MkDate(d.day + deltaDays, d.ms) ELSE Invalid

\* addMonths keeping the month within the year of d
addMonthsWithinYear(d, deltaMonths) ==
  LET m == getMonth(d) + deltaMonths
      within == IF m < 0 THEN 0 ELSE IF m > 11 THEN 11 ELSE m
  IN  IF d.valid
      THEN MkDate(MakeDay(getFullYear(d), within, getDate(d)), d.ms)
      ELSE Invalid

addMonths(d, deltaMonths) ==
  IF d.valid
  THEN MkDate(MakeDay(getFullYear(d), getMonth(d) + deltaMonths, getDate(d)), d.ms)
  ELSE Invalid

addYears(d, deltaYears) ==
  IF d.valid
  THEN MkDate(MakeDay(getFullYear(d) + deltaYears, getMonth(d), getDate(d)), d.ms)
  ELSE Invalid

clamp(v, min, max) ==
  LET lo == IF v > min THEN v ELSE min
  IN  IF max < lo THEN max ELSE lo

\* Math.round of the rational n / d, d > 0: halves round towards +infinity
RoundDiv(n, d) == (2 * n + d) \div (2 * d)

\* The difference of the two midnights is taken in minutes here (it is a
\* whole number of minutes, the midnights having ms = 0) so that it fits the
\* model checker's integers.
diffDays(a, b) ==
  LET x == startOfDay(a)
      y == startOfDay(b)
      minutes == (x.day - y.day) * (24 * 60) + ((x.ms - y.ms) \div 60000)
  IN  RoundDiv(minutes, 24 * 60)

----------------------------------------------------------------------------
(* View partitioner *)

Views == {"day", "week", "month", "year"}

\* monthDays taking every month to have 30 days
monthDaysThirty(anchor) ==
  LET y == getFullYear(anchor)
      m == getMonth(anchor)
  IN  [d \in 1..30 |-> NewDate(y, m, d)]

monthDays(anchor) ==
  LET y == getFullYear(anchor)
      m == getMonth(anchor)
      last == NewDate(y, m + 1, 0)
  IN  [d \in 1..getDate(last) |-> NewDate(y, m, d)]

\* weekDays with the week starting on the Sunday
weekDaysFromSunday(anchor) ==
  LET d == startOfDay(anchor)
      day == getDay(d)
      start == addDays(d, -day)
  IN  [i \in 1..7 |-> addDays(start, i - 1)]

\* weekDays returning six days, Monday to Saturday
weekDaysSix(anchor) ==
  LET d == startOfDay(anchor)
      day == getDay(d)
      mondayOffset == (day + 6) % 7
      start == addDays(d, -mondayOffset)
  IN  [i \in 1..6 |-> addDays(start, i - 1)]

weekDays(anchor) ==
  LET d == startOfDay(anchor)
      day == getDay(d)
      mondayOffset == (day + 6) % 7
      start == addDays(d, -mondayOffset)
  IN  [i \in 1..7 |-> addDays(start, i - 1)]

dayOnly(anchor) == <<startOfDay(anchor)>>

\* the section of the month that holds `anchor`, keyed by `key`
MonthSection(anchor, key) ==
  LET days == monthDays(anchor)
  IN  [key |-> key,
       start |-> startOfDay(days[1]),
       end |-> addDays(startOfDay(days[Len(days)]), 1),
       days |-> days]

\* getViewModel(...).section
getViewModel(date, v) ==
  IF v = "day" THEN
    LET days == dayOnly(date)
    IN  [key |-> <<days[1].day>>, start |-> days[1],
         end |-> addDays(days[1], 1), days |-> days]
  ELSE IF v = "week" THEN
    LET days == weekDays(date)
    IN  [key |-> <<days[1].day>>, start |-> days[1],
         end |-> addDays(days[1], 7), days |-> days]
  ELSE MonthSection(date, <<getFullYear(date), getMonth(date)>>)

getYearSections(date) ==
  LET y == getFullYear(date)
  IN  [i \in 1..12 |-> MonthSection(NewDate(y, i - 1, 1), <<y, i - 1>>)]

\* the `sections` memo of the component
Sections(date, v) ==
  IF v # "year" THEN <<getViewModel(date, v)>> ELSE getYearSections(date)

addByView(d, v, delta) ==
  IF v = "day" THEN addDays(d, delta)
  ELSE IF v = "week" THEN addDays(d, delta * 7)
  ELSE IF v = "month" THEN addMonths(d, delta)
  ELSE addYears(d, delta)

----------------------------------------------------------------------------
(* Event normalizer *)

\* optional strings: a present string, or one of the two absent values
Undefined == "<undefined>"
Null == "<null>"

\* `!s` is false exactly for a present, non-empty string
Truthy(s) == s \notin {Undefined, Null, ""}

\* `s ?? dflt`
OrElse(s, dflt) == IF s \in {Undefined, Null} THEN dflt ELSE s

\* hasTime looking at hours and minutes only
hasTimeHoursMinutes(endRaw) ==
  \/ ~endRaw.valid
  \/ getHours(endRaw) # 0
  \/ getMinutes(endRaw) # 0

\* any of the four time-of-day getters differs from 0; on an Invalid Date
\* each getter returns NaN, which differs from 0
hasTime(endRaw) ==
  \/ ~endRaw.valid
  \/ getHours(endRaw) # 0
  \/ getMinutes(endRaw) # 0
  \/ getSeconds(endRaw) # 0
  \/ getMilliseconds(endRaw) # 0

normalizeEvent(e) ==
  LET start == startOfDay(toDate(e.start))
      endRaw == IF TruthyValue(e.end) THEN toDate(e.end) ELSE addDays(start, 1)
      endDay == startOfDay(endRaw)
      end == IF hasTime(endRaw) THEN addDays(endDay, 1) ELSE endDay
      safeEnd == IF TimeLE(end, start) THEN addDays(start, 1) ELSE end
  IN  [id |-> OrElse(e.id, Null),
       title |-> e.title,
       start |-> start,
       end |-> safeEnd,
       resourceId |-> OrElse(e.resourceId, Null),
       color |-> e.color,
       raw |-> e]

normalizeEvents(evs) == [i \in 1..Len(evs) |-> normalizeEvent(evs[i])]

----------------------------------------------------------------------------
(* Visible-event projection *)

\* resources.findIndex((r) => r.id === id): zero-based, -1 when none
findIndex(res, id) ==
  IF \E i \in 1..Len(res) : res[i].id = id
  THEN (CHOOSE i \in 1..Len(res) :
          /\ res[i].id = id
          /\ \A j \in 1..(i - 1) : res[j].id # id) - 1
  ELSE -1

\* intersects with the closed interval test (>= and <=)
intersectsClosed(ev, section) ==
  IF ~Truthy(ev.resourceId) THEN FALSE
  ELSE TimeLE(section.start, ev.end) /\ TimeLE(ev.start, section.end)

intersects(ev, section) ==
  IF ~Truthy(ev.resourceId) THEN FALSE
  ELSE TimeGT(ev.end, section.start) /\ TimeLT(ev.start, section.end)

\* position without clipping the event to the section
positionUnclipped(ev, section, res) ==
  LET startIndex == diffDays(ev.start, section.start)
      endIndex == diffDays(ev.end, section.start)
  IN  [ev |-> ev,
       startIndex |-> startIndex,
       endIndex |-> IF startIndex + 1 > endIndex THEN startIndex + 1 ELSE endIndex,
       resourceIndex |-> findIndex(res, ev.resourceId)]

position(ev, section, res) ==
  LET start == IF TimeLT(ev.start, section.start) THEN section.start ELSE ev.start
      end == IF TimeGT(ev.end, section.end) THEN section.end ELSE ev.end
      startIndex == diffDays(start, section.start)
      endIndex == diffDays(end, section.start)
  IN  [ev |-> ev,
       startIndex |-> startIndex,
       endIndex |-> IF startIndex + 1 > endIndex THEN startIndex + 1 ELSE endIndex,
       resourceIndex |-> findIndex(res, ev.resourceId)]

\* the `visible` list of renderEventsForSection
visible(section, res, evs) ==
  LET hit(ev) == intersects(ev, section)
      kept == SelectSeq(evs, hit)
      placed == [i \in 1..Len(kept) |-> position(kept[i], section, res)]
      found(x) == x.resourceIndex >= 0
  IN  SelectSeq(placed, found)

----------------------------------------------------------------------------
(* The Calendar component: state, inputs and handlers *)

rowHeight == 40
resourceColWidth == 240
defaultCellWidth == 40

Pointers == 1..MaxPointer

\* client coordinates of pointer events, taken with the left and top edge of
\* the grid body (rect.left, rect.top) at 0
Xs == {0, 60}
Ys == {-5, 90}

\* widths of the grid body's bounding rectangle, in pixels
Widths == {0, 860}
\* widths the ResizeObserver reports: those, and one that leaves less than 5
\* pixels a day in a month
ObservedWidths == Widths \cup {300}

\* cell widths are rationals n / d
Ratio(n, d) == [n |-> n, d |-> d]

\* compute() falling back to the default width only when w is not above 0
computeAboveZero(rectWidth, daysCount) ==
  LET width == IF rectWidth - resourceColWidth > 0
               THEN rectWidth - resourceColWidth ELSE 0
      w == IF daysCount > 0 THEN Ratio(width, daysCount)
           ELSE Ratio(defaultCellWidth, 1)
  IN  IF w.n > 0 THEN w ELSE Ratio(defaultCellWidth, 1)

\* compute() of the layout effect, for a measured rectangle width
compute(rectWidth, daysCount) ==
  LET width == IF rectWidth - resourceColWidth > 0
               THEN rectWidth - resourceColWidth ELSE 0
      w == IF daysCount > 0 THEN Ratio(width, daysCount)
           ELSE Ratio(defaultCellWidth, 1)
  IN  IF w.n > 5 * w.d THEN w ELSE Ratio(defaultCellWidth, 1)

\* bodyRef.current: the grid body carries the ref in every view but `year`
bodyRefAttached(v) == v # "year"

\* The layout effect runs again only when the day count of the view model
\* changes, and measures the body only when the ref is attached.
layoutEffect(cw, oldCount, newCount, v, rectWidth) ==
  IF newCount = oldCount \/ ~bodyRefAttached(v) THEN cw
  ELSE compute(rectWidth, newCount)

daysCount(date, v) == Len(getViewModel(date, v).days)

normalizedEvents == normalizeEvents(events)

\* the events drawn on screen: those of `visible` in any rendered section
rendered ==
  LET secs == Sections(activeDate, view)
  IN  { x.ev : x \in UNION { LET vs == visible(secs[i], resources, normalizedEvents)
                             IN  { vs[j] : j \in 1..Len(vs) }
                             : i \in 1..Len(secs) } }

NoDrag == <<>>
Dragging == drag # NoDrag

Max(a, b) == IF a > b THEN a ELSE b

targetRow(y, res) == clamp(y \div rowHeight, 0, Max(0, Len(res) - 1))

\* the state onEventPointerDown leaves for a pointer-down of pointer p at
\* (x, y) on the element of event ev
onEventPointerDown(drg, p, ev, x, y) ==
  IF ~Truthy(ev.id) THEN drg
  ELSE IF ~bodyRefAttached(view) THEN drg
  ELSE <<[pointerId |-> p,
          eventId |-> ev.id,
          origin |-> ev,
          startX |-> x,
          startY |-> y,
          deltaDays |-> 0,
          targetResourceIndex |-> targetRow(y, resources)]>>

\* whether that pointer-down reaches setPointerCapture
capturesPointer(ev) == Truthy(ev.id) /\ bodyRefAttached(view)

\* whether onEventPointerMove gets past its early returns
moveHandled(drg, p) ==
  /\ drg # NoDrag
  /\ p = drg[1].pointerId
  /\ bodyRefAttached(view)

onEventPointerMove(drg, p, x, y) ==
  IF ~moveHandled(drg, p) THEN drg
  ELSE LET dx == x - drg[1].startX
           deltaDays == IF cellWidth.n > 0
                        THEN RoundDiv(dx * cellWidth.d, cellWidth.n) ELSE 0
       IN  <<[drg[1] EXCEPT !.deltaDays = deltaDays,
                            !.targetResourceIndex = targetRow(y, resources)]>>

\* resources[i]?.id for a zero-based i
resourceIdAt(res, i) ==
  IF i + 1 \in 1..Len(res) THEN res[i + 1].id ELSE Undefined

\* the event record onEventPointerUp hands to onEventChange
updatedEvent(d, nextResourceId) ==
  [d.origin.raw EXCEPT !.id = OrElse(d.origin.id, Undefined),
                       !.start = DateValue(addDays(d.origin.start, d.deltaDays)),
                       !.end = DateValue(addDays(d.origin.end, d.deltaDays)),
                       !.resourceId = nextResourceId]

\* upHandled without the test of the pointer id
upHandledAnyPointer(drg, p) == drg # NoDrag

\* whether onEventPointerUp gets past its early returns
upHandled(drg, p) == drg # NoDrag /\ p = drg[1].pointerId

\* upCalls without the test for a missing resource at the target row
upCallsUnchecked(drg, p) ==
  IF ~upHandled(drg, p) THEN <<>>
  ELSE <<updatedEvent(drg[1], resourceIdAt(resources, drg[1].targetResourceIndex))>>

\* the onEventChange calls one run of onEventPointerUp makes
upCalls(drg, p) ==
  IF ~upHandled(drg, p) THEN <<>>
  ELSE LET nextResourceId == resourceIdAt(resources, drg[1].targetResourceIndex)
       IN  IF ~Truthy(nextResourceId) THEN <<>>
           ELSE <<updatedEvent(drg[1], nextResourceId)>>

\* the drag state one run of onEventPointerUp leaves
onEventPointerUp(drg, p) == IF ~upHandled(drg, p) THEN drg ELSE NoDrag

\* A pointer-move or pointer-up is dispatched to the element that captured
\* the pointer, else to the element under the pointer.  Event elements and
\* the grid body that contains them both register onEventPointerMove and
\* onEventPointerUp, and the events bubble: dispatched on an event element
\* the handler runs for that element and again for the body, both runs
\* closing over the drag state of the same render.
Targets(p, st) ==
  IF st[p] = "captured" THEN {"event"} ELSE {"event", "body", "outside"}

handlerRuns(target) ==
  IF target = "event" THEN 2 ELSE IF target = "body" THEN 1 ELSE 0

RECURSIVE Repeat(_, _)
Repeat(s, n) == IF n = 0 THEN <<>> ELSE s \o Repeat(s, n - 1)

----------------------------------------------------------------------------
(* Inputs *)

\* civil date y-m-d (m = 1..12) as a day number
Day(y, m, d) == MakeDay(y, m - 1, d)

At(y, m, d, h, mi) == MkDate(Day(y, m, d), h * MsPerHour + mi * 60000)

\* the reading of the clock, new Date()
Now == At(2024, 1, 10, 10, 30)

Resource(i) == [id |-> "r" \o ToString(i), title |-> "R" \o ToString(i)]

\* resource lists: r1..rn in order, and r1, r2 swapped
ResourceLists ==
  { [i \in 1..n |-> Resource(i)] : n \in 0..MaxResources }
    \cup { <<Resource(2), Resource(1)>> }

RawEvent(id, start, end, resourceId) ==
  [id |-> id, title |-> "task", start |-> start, end |-> end,
   resourceId |-> resourceId, color |-> "#1677ff"]

\* `event` holds the canonical event a pointer-down was dispatched on, `at`
\* the client coordinates <<x, y>> of a pointer-move or the width <<w>> the
\* ResizeObserver reports
Step(op, p, outcome) ==
  [op |-> op, pointer |-> p, outcome |-> outcome, event |-> <<>>, at |-> <<>>]

----------------------------------------------------------------------------
(* Steps of the component *)

\* pointer p goes down at (x, y) on the element of a rendered event
PointerDown ==
  \E p \in Pointers, ev \in rendered, x \in Xs, y \in Ys :
    /\ ptr[p] = "up"
    /\ drag' = onEventPointerDown(drag, p, ev, x, y)
    /\ ptr' = [ptr EXCEPT ![p] = IF capturesPointer(ev) THEN "captured" ELSE "down"]
    /\ emitted' = <<>>
    /\ step' = [Step("down", p, IF capturesPointer(ev) THEN "start" ELSE "ignored")
                  EXCEPT !.event = <<ev>>]
    /\ UNCHANGED <<view, activeDate, resources, events, cellWidth>>

\* pointer p goes down elsewhere on the page: no handler of the component
PointerPress ==
  \E p \in Pointers :
    /\ ptr[p] = "up"
    /\ ptr' = [ptr EXCEPT ![p] = "down"]
    /\ emitted' = <<>>
    /\ step' = Step("press", p, "none")
    /\ UNCHANGED <<view, activeDate, resources, events, cellWidth, drag>>

\* pointer p moves to (x, y); a move that reaches no handler, or whose
\* handler returns on the drag state or the pointer id, leaves the same state
\* whatever the coordinates
PointerMove ==
  \E p \in Pointers : \E target \in Targets(p, ptr) :
    /\ IF handlerRuns(target) > 0 /\ drag # NoDrag /\ p = drag[1].pointerId
       THEN \E x \in Xs, y \in Ys :
              /\ drag' = onEventPointerMove(drag, p, x, y)
              /\ step' = [Step("move", p, IF moveHandled(drag, p) THEN "moved"
                                          ELSE "ignored")
                            EXCEPT !.at = <<x, y>>]
       ELSE /\ drag' = drag
            /\ step' = Step("move", p, "ignored")
    /\ emitted' = <<>>
    /\ UNCHANGED <<view, activeDate, resources, events, cellWidth, ptr>>

\* pointer p is released
PointerUp ==
  \E p \in Pointers : \E target \in Targets(p, ptr) :
    /\ ptr[p] # "up"
    /\ ptr' = [ptr EXCEPT ![p] = "up"]
    /\ drag' = IF handlerRuns(target) > 0 THEN onEventPointerUp(drag, p) ELSE drag
    /\ emitted' = Repeat(upCalls(drag, p), handlerRuns(target))
    /\ step' = Step("up", p,
                    IF handlerRuns(target) = 0 \/ ~upHandled(drag, p) THEN "ignored"
                    ELSE IF upCalls(drag, p) = <<>> THEN "discard" ELSE "commit")
    /\ UNCHANGED <<view, activeDate, resources, events, cellWidth>>

\* the browser cancels pointer p (pointercancel): the component registers
\* no handler for it
PointerCancel ==
  \E p \in Pointers :
    /\ ptr[p] # "up"
    /\ ptr' = [ptr EXCEPT ![p] = "up"]
    /\ emitted' = <<>>
    /\ step' = Step("cancel", p, "none")
    /\ UNCHANGED <<view, activeDate, resources, events, cellWidth, drag>>

\* pointer p loses its capture while still down (lostpointercapture, for
\* instance when the capturing element is removed): no handler either
LostCapture ==
  \E p \in Pointers :
    /\ ptr[p] = "captured"
    /\ ptr' = [ptr EXCEPT ![p] = "down"]
    /\ emitted' = <<>>
    /\ step' = Step("lostcapture", p, "none")
    /\ UNCHANGED <<view, activeDate, resources, events, cellWidth, drag>>

\* the caller passes another `resources` prop
\* the caller passes another `resources` prop, from the lists S
SetResources(S) ==
  \E res \in S :
    /\ res # resources
    /\ resources' = res
    /\ emitted' = <<>>
    /\ step' = Step("resources", 0, "none")
    /\ UNCHANGED <<view, activeDate, events, cellWidth, drag, ptr>>

\* the caller passes another `events` prop, from the lists S
SetEvents(S) ==
  \E evs \in S :
    /\ evs # events
    /\ events' = evs
    /\ emitted' = <<>>
    /\ step' = Step("events", 0, "none")
    /\ UNCHANGED <<view, activeDate, resources, cellWidth, drag, ptr>>

\* the caller passes the `events` prop with one more event, from the pool P
AppendEvent(P) ==
  \E e \in P :
    /\ Len(events) < MaxEvents
    /\ events' = Append(events, e)
    /\ emitted' = <<>>
    /\ step' = Step("events", 0, "none")
    /\ UNCHANGED <<view, activeDate, resources, cellWidth, drag, ptr>>

\* The ResizeObserver reports the grid body at width w.  The observer is
\* set up by the layout effect and lives until the day count changes, so it
\* may outlive a change to the year view; its compute() closes over the day
\* count of the view model, which is still the current one.
Resize ==
  \E w \in ObservedWidths :
    /\ cellWidth' = compute(w, daysCount(activeDate, view))
    /\ emitted' = <<>>
    /\ step' = [Step("resize", 0, "none") EXCEPT !.at = <<w>>]
    /\ UNCHANGED <<view, activeDate, resources, events, drag, ptr>>

\* view and active date become v and d; the layout effect follows
Show(v, d, op) ==
  /\ view' = v
  /\ activeDate' = d
  /\ \E w \in Widths :
       cellWidth' = layoutEffect(cellWidth, daysCount(activeDate, view),
                                 daysCount(d, v), v, w)
  /\ emitted' = <<>>
  /\ step' = Step(op, 0, "none")
  /\ UNCHANGED <<resources, events, drag, ptr>>

\* the toolbar's view buttons, those of the views S
SetView(S) ==
  \E v \in S : v # view /\ Show(v, activeDate, "view")

\* navigation, kept to active dates whose day number lies in the set W
goPrev(W) ==
  /\ addByView(activeDate, view, -1).day \in W
  /\ Show(view, addByView(activeDate, view, -1), "prev")

goNext(W) ==
  /\ addByView(activeDate, view, 1).day \in W
  /\ Show(view, addByView(activeDate, view, 1), "next")

goToday ==
  /\ activeDate # toDate(DateValue(Now))
  /\ Show(view, toDate(DateValue(Now)), "today")

\* the state after the first render and its layout effect
Mounted(v, d, res, evs, w) ==
  /\ view = v
  /\ activeDate = d
  /\ resources = res
  /\ events = evs
  /\ cellWidth = IF bodyRefAttached(v) THEN compute(w, daysCount(d, v))
                 ELSE Ratio(defaultCellWidth, 1)
  /\ drag = NoDrag
  /\ ptr = [p \in Pointers |-> "up"]
  /\ emitted = <<>>
  /\ step = Step("mount", 0, "none")

----------------------------------------------------------------------------
(* The interactive component in month view: pointer gestures and props *)

\* resource lists r1..rn
ResourcePrefixes == { [i \in 1..n |-> Resource(i)] : n \in 0..MaxResources }

DragEvents ==
  << RawEvent("e1", DateValue(At(2024, 1, 10, 9, 0)),
              DateValue(At(2024, 1, 10, 11, 0)), "r1"),
     RawEvent(Undefined, StringValue(<<2024, 1, 11>>), UndefinedValue, "r1") >>

Init ==
  \E res \in ResourcePrefixes :
    Mounted("month", toDate(DateValue(Now)), res, DragEvents, 860)

Next ==
  \/ PointerDown
  \/ PointerPress
  \/ PointerMove
  \/ PointerUp
  \/ PointerCancel
  \/ LostCapture
  \/ SetResources(ResourcePrefixes)

Spec == Init /\ [][Next]_vars

----------------------------------------------------------------------------
(* The normalizer on its own: the caller varies the `events` prop *)

UnparseableString == StringValue(<<2024, 13, 1>>)

NormalizeStarts ==
  { DateValue(At(2024, 1, 10, 0, 0)),
    DateValue(At(2024, 1, 10, 9, 30)),
    StringValue(<<2024, 1, 12, 8, 30>>),
    UnparseableString }

NormalizeEnds ==
  { UndefinedValue,
    StringValue(<<>>),
    UnparseableString,
    DateValue(At(2024, 1, 10, 0, 0)),
    DateValue(At(2024, 1, 10, 14, 0)),
    DateValue(MkDate(Day(2024, 1, 9), MsPerDay - 1)),
    DateValue(MkDate(Day(2024, 1, 11), 1)),
    StringValue(<<2024, 1, 13>>) }

NormalizePool ==
  { RawEvent(IF st.k = "Date" THEN "e1" ELSE Undefined, st, en,
             IF st.k = "Date" THEN "r1" ELSE Undefined)
      : st \in NormalizeStarts, en \in NormalizeEnds }

InitNormalize ==
  Mounted("month", toDate(DateValue(Now)), <<Resource(1)>>, <<>>, 860)

NextNormalize ==
  \/ AppendEvent(NormalizePool)
  \/ SetEvents({<<>>})

SpecNormalize == InitNormalize /\ [][NextNormalize]_vars

----------------------------------------------------------------------------
(* The projection on its own: the caller varies events, resources, view *)

ProjectPool ==
  { \* ends exactly where the day section starts
    RawEvent("p1", DateValue(At(2024, 1, 9, 0, 0)), DateValue(At(2024, 1, 10, 0, 0)), "r1"),
    \* starts exactly where the day section ends
    RawEvent("p2", StringValue(<<2024, 1, 11>>), UndefinedValue, "r2"),
    \* five days around the day section
    RawEvent("p3", DateValue(At(2024, 1, 8, 0, 0)), DateValue(At(2024, 1, 13, 0, 0)), "r2"),
    \* crosses from December into January
    RawEvent("p4", StringValue(<<2023, 12, 30>>), StringValue(<<2024, 1, 1, 12, 0>>), "r1"),
    \* crosses from January into February
    RawEvent("p5", DateValue(At(2024, 1, 31, 8, 0)), DateValue(At(2024, 2, 2, 9, 0)), "r1"),
    \* no resource, an empty resource id, an unknown resource
    RawEvent("p6", DateValue(At(2024, 1, 10, 0, 0)), UndefinedValue, Undefined),
    RawEvent("p7", DateValue(At(2024, 1, 10, 0, 0)), UndefinedValue, ""),
    RawEvent("p8", DateValue(At(2024, 1, 10, 0, 0)), UndefinedValue, "r9"),
    \* an end that does not parse
    RawEvent("p9", DateValue(At(2024, 1, 10, 0, 0)), UnparseableString, "r1") }

InitProject ==
  \E v \in Views, res \in ResourceLists :
    Mounted(v, toDate(DateValue(Now)), res, <<>>, 860)

NextProject ==
  \/ AppendEvent(ProjectPool)
  \/ SetEvents({<<>>})
  \/ SetResources(ResourceLists)
  \/ SetView(Views)

SpecProject == InitProject /\ [][NextProject]_vars

----------------------------------------------------------------------------
(* The partitioner and the navigation on their own *)

\* day numbers the navigation may reach: 1 January of BaseYear + 1 through
\* 31 December of BaseYear + YearSpan - 1
NavDays == Day(BaseYear + 1, 1, 1) .. (Day(BaseYear + YearSpan, 1, 1) - 1)

InitView ==
  \E v \in Views :
    Mounted(v, toDate(DateValue(Now)), <<Resource(1)>>, <<>>, 860)

NextView ==
  \/ SetView(Views)
  \/ goPrev(NavDays)
  \/ goNext(NavDays)
  \/ goToday

SpecView == InitView /\ [][NextView]_vars

----------------------------------------------------------------------------
(* The grid metrics: resizes, view changes and navigation by months, before
   and during a gesture *)

\* the active dates of the metrics model: the 10th of January and of
\* February of the year of Now
LayoutDays == { Day(getFullYear(Now), m, getDate(Now)) : m \in 1..2 }

InitLayout ==
  Mounted("month", toDate(DateValue(Now)), <<Resource(1)>>, DragEvents, 860)

NextLayout ==
  \/ Resize
  \/ SetView(Views)
  \/ goPrev(LayoutDays)
  \/ goNext(LayoutDays)
  \/ PointerDown
  \/ PointerMove

SpecLayout == InitLayout /\ [][NextLayout]_vars

----------------------------------------------------------------------------
(* Properties of the drag controller, under Spec *)

\* the pointer of the gesture in progress still holds its capture
CapturedDrag == Dragging /\ ptr[drag[1].pointerId] = "captured"

\* the reschedule request the spec describes for the gesture d released over
\* the resource list res
Reschedule(d, res) ==
  [id |-> d.origin.raw.id,
   title |-> d.origin.raw.title,
   color |-> d.origin.raw.color,
   start |-> DateValue(MkDate(d.origin.start.day + d.deltaDays, d.origin.start.ms)),
   end |-> DateValue(MkDate(d.origin.end.day + d.deltaDays, d.origin.end.ms)),
   resourceId |-> res[d.targetResourceIndex + 1].id]

\* C1: a pointer-up of the captured pointer while Dragging, with a resource
\* at the target row, invokes the reschedule callback exactly once, with the
\* origin's canonical start and end shifted by deltaDays, the id of the
\* resource at the target row and the other raw fields kept, and leaves the
\* controller Idle; no step other than a pointer-up invokes the callback.
C1_CommitInvokesCallbackOnce ==
  [][ /\ ( /\ CapturedDrag
           /\ step'.op = "up"
           /\ step'.pointer = drag[1].pointerId
           /\ drag[1].targetResourceIndex + 1 \in 1..Len(resources) )
         => /\ emitted' = <<Reschedule(drag[1], resources)>>
            /\ drag' = NoDrag
      /\ (step'.op # "up" => emitted' = <<>>) ]_vars

\* C2: a pointer-up of the captured pointer while Dragging, with the target
\* row at or beyond the resource count, invokes no callback and leaves the
\* controller Idle.
C2_ReleaseOverNoResourceDiscards ==
  [][ ( /\ CapturedDrag
        /\ step'.op = "up"
        /\ step'.pointer = drag[1].pointerId
        /\ drag[1].targetResourceIndex >= Len(resources) )
      => /\ emitted' = <<>>
         /\ drag' = NoDrag ]_vars

\* a gesture has just been discarded by a pointer-up although resources
\* remain: the list shrank below the target row during the gesture
C2_Witness ==
  /\ step.op = "up"
  /\ step.outcome = "discard"
  /\ Len(resources) >= 1
  /\ emitted = <<>>
  /\ drag = NoDrag

\* C3: the controller is never left Dragging once the pointer of the gesture
\* has been released (pointer-up or pointer-cancel).
C3_ReleasedPointerLeavesIdle ==
  Dragging => ptr[drag[1].pointerId] # "up"

\* C4: a pointer-down on an event while Dragging with another pointer leaves
\* the drag state of the gesture in progress unchanged.
C4_SecondPointerDownIgnored ==
  [][ ( /\ Dragging
        /\ step'.op = "down"
        /\ step'.pointer # drag[1].pointerId )
      => drag' = drag ]_vars

----------------------------------------------------------------------------
(* Properties of the normalizer, under SpecNormalize *)

Midnight(n) == MkDate(n, 0)

\* C5: every canonical event has start and end at local midnight and
\* end > start, whatever the raw end (stated here for the raw events whose
\* start is a valid date).
C5_CanonicalRange ==
  \A i \in 1..Len(events) :
    toDate(events[i].start).valid =>
      LET c == normalizedEvents[i]
      IN  /\ c.start.valid /\ c.start.ms = 0
          /\ c.end.valid /\ c.end.ms = 0
          /\ c.end.day > c.start.day

\* the canonical end the rule of C6 gives for a start on day s and a valid
\* end r
RuleEnd(s, r) ==
  LET e == IF r.ms # 0 THEN r.day + 1 ELSE r.day
  IN  Midnight(IF e <= s THEN s + 1 ELSE e)

\* C6: one canonical event per raw event, in order; with the start floored
\* to midnight of its day s, an absent end gives s + 1 day, an end with a
\* time of day on day D gives D + 1 day, an end at midnight of D gives D,
\* and a result not after the start gives s + 1 day.
C6_NormalizeRule ==
  /\ Len(normalizedEvents) = Len(events)
  /\ \A i \in 1..Len(events) :
       LET e == events[i]
           c == normalizedEvents[i]
           s == toDate(e.start)
           r == toDate(e.end)
       IN  /\ c.raw = e
           /\ s.valid =>
                /\ c.start = Midnight(s.day)
                /\ e.end = UndefinedValue => c.end = Midnight(s.day + 1)
                /\ (e.end # UndefinedValue /\ r.valid) => c.end = RuleEnd(s.day, r)

\* two events are normalized: one whose end carries a time of day and is
\* rounded up past the start, one whose end is not after its start
C6_Witness ==
  /\ Len(events) = 2
  /\ \E i \in 1..2 :
       LET r == toDate(events[i].end)
       IN  /\ r.valid /\ r.ms # 0 /\ toDate(events[i].start).valid
           /\ normalizedEvents[i].end = Midnight(r.day + 1)
           /\ r.day > toDate(events[i].start).day
  /\ \E i \in 1..2 :
       LET r == toDate(events[i].end)
           s == toDate(events[i].start)
       IN  /\ r.valid /\ s.valid /\ r.day < s.day
           /\ normalizedEvents[i].end = Midnight(s.day + 1)

\* C7: a raw event whose end is present but does not parse is normalized to
\* a one-day span, as when the end is missing.
C7_UnparseableEndOneDay ==
  \A i \in 1..Len(events) :
    LET e == events[i]
        s == toDate(e.start)
    IN  (s.valid /\ TruthyValue(e.end) /\ ~toDate(e.end).valid) =>
          normalizedEvents[i].end = Midnight(s.day + 1)

----------------------------------------------------------------------------
(* Properties of the projection, under SpecProject *)

SeqRange(q) == { q[i] : i \in 1..Len(q) }

\* C8: a canonical event is in the projection of a section exactly when it
\* has a resource id, some resource has that id, its end is after the
\* section's start and its start before the section's end; its row is the
\* position of a resource with that id.
C8_ProjectionMembership ==
  \A sec \in SeqRange(Sections(activeDate, view)) :
    LET vis == SeqRange(visible(sec, resources, normalizedEvents))
    IN  /\ \A ev \in SeqRange(normalizedEvents) :
             (\E x \in vis : x.ev = ev)
               <=> /\ ev.resourceId # Null
                   /\ \E k \in 1..Len(resources) : resources[k].id = ev.resourceId
                   /\ ev.start.valid /\ ev.end.valid
                   /\ ev.end.day > sec.start.day
                   /\ ev.start.day < sec.end.day
        /\ \A x \in vis :
             /\ x.resourceIndex + 1 \in 1..Len(resources)
             /\ resources[x.resourceIndex + 1].id = x.ev.resourceId

\* in day view with resources r2, r1: an event ending at the section's start
\* and one starting at its end are left out, one over the day is shown in
\* the row of its resource
C8_Witness ==
  /\ view = "day"
  /\ resources = <<Resource(2), Resource(1)>>
  /\ Len(events) = 2
  /\ LET sec == Sections(activeDate, view)[1]
         vis == visible(sec, resources, normalizedEvents)
     IN  /\ Len(vis) = 1
         /\ vis[1].resourceIndex = 0
         /\ \E ev \in SeqRange(normalizedEvents) :
              ev.end = sec.start /\ Truthy(ev.resourceId)

\* C9: for every projected event startColumn is the day offset of the later
\* of event start and section start, endColumn the larger of
\* startColumn + 1 and the day offset of the earlier of event end and
\* section end; so 0 <= startColumn < endColumn <= number of days, and on a
\* one-day section the event takes column 0 with width 1.
C9_Columns ==
  \A sec \in SeqRange(Sections(activeDate, view)) :
    \A x \in SeqRange(visible(sec, resources, normalizedEvents)) :
      LET from == Max(x.ev.start.day, sec.start.day) - sec.start.day
          upto == (IF x.ev.end.day < sec.end.day THEN x.ev.end.day
                   ELSE sec.end.day) - sec.start.day
      IN  /\ x.startIndex = from
          /\ x.endIndex = Max(from + 1, upto)
          /\ 0 <= x.startIndex
          /\ x.startIndex < x.endIndex
          /\ x.endIndex <= Len(sec.days)
          /\ Len(sec.days) = 1 => (x.startIndex = 0 /\ x.endIndex = 1)

\* an event of five days is projected on the one-day section
C9_Witness ==
  /\ view = "day"
  /\ \E x \in SeqRange(visible(Sections(activeDate, view)[1], resources, normalizedEvents)) :
       /\ x.ev.end.day - x.ev.start.day = 5
       /\ x.startIndex = 0
       /\ x.endIndex = 1

----------------------------------------------------------------------------
(* Properties of the partitioner, under SpecView *)

\* C10: every section of every view has at least one day, starts on its
\* first day, has each day one day after the one before, and ends one day
\* after its last day.
C10_SectionsContiguous ==
  \A sec \in SeqRange(Sections(activeDate, view)) :
    /\ Len(sec.days) >= 1
    /\ sec.days[1] = sec.start
    /\ \A i \in 1..(Len(sec.days) - 1) :
         sec.days[i + 1] = MkDate(sec.days[i].day + 1, sec.days[i].ms)
    /\ sec.end = MkDate(sec.days[Len(sec.days)].day + 1, sec.days[Len(sec.days)].ms)

\* the year view of a leap year, reached by navigation: twelve sections,
\* February with 29 days
C10_Witness ==
  /\ view = "year"
  /\ step.op \in {"prev", "next"}
  /\ Len(Sections(activeDate, view)) = 12
  /\ Len(Sections(activeDate, view)[2].days) = 29

\* C11: for every active date the week view has exactly one section, of 7
\* days, whose first day is a Monday and which holds the calendar day of the
\* active date; an active date on a Sunday lies in the week that started 6
\* days earlier.
C11_WeekFromMonday ==
  view = "week" =>
    LET secs == Sections(activeDate, view)
    IN  /\ Len(secs) = 1
        /\ Len(secs[1].days) = 7
        /\ getDay(secs[1].days[1]) = 1
        /\ secs[1].start = secs[1].days[1]
        /\ \E i \in 1..7 : secs[1].days[i] = MkDate(activeDate.day, 0)
        /\ getDay(activeDate) = 0 => secs[1].days[1] = MkDate(activeDate.day - 6, 0)

\* the week view of an active date on a Sunday, reached by navigation
C11_Witness ==
  /\ view = "week"
  /\ step.op \in {"prev", "next", "view"}
  /\ getDay(activeDate) = 0
  /\ Sections(activeDate, view)[1].days[7] = MkDate(activeDate.day, 0)

\* the section of C12 for month m (0..11) of year y: from the 1st through
\* the last day of that calendar month
IsFullMonth(sec, y, m) ==
  /\ sec.start = MkDate(MonthStart[y][m], 0)
  /\ sec.end = MkDate(MonthStart[y][m] + DaysInMonth(y, m), 0)
  /\ Len(sec.days) = DaysInMonth(y, m)
  /\ \A k \in 1..Len(sec.days) : sec.days[k] = MkDate(MonthStart[y][m] + k - 1, 0)

\* the days of the first n sections of secs, one after the other
RECURSIVE DaysOf(_, _)
DaysOf(secs, n) == IF n = 0 THEN <<>> ELSE DaysOf(secs, n - 1) \o secs[n].days

\* the days of year y in order, each once
DaysOfYear(y) == [k \in 1..DaysInYear(y) |-> MkDate(MonthStart[y][0] + k - 1, 0)]

\* C12: the month view has one section, running from the 1st through the
\* last day of the calendar month of the active date; the year view has
\* exactly twelve sections, the i-th being that full-month section of month
\* i of the active date's year, each ending where the next starts, together
\* holding every day of the year exactly once.
C12_MonthAndYearSections ==
  LET secs == Sections(activeDate, view)
      y == getFullYear(activeDate)
  IN  /\ view = "month" =>
           /\ Len(secs) = 1
           /\ IsFullMonth(secs[1], y, getMonth(activeDate))
      /\ view = "year" =>
           /\ Len(secs) = 12
           /\ \A i \in 1..12 : IsFullMonth(secs[i], y, i - 1)
           /\ \A i \in 1..11 : secs[i].end = secs[i + 1].start
           /\ DaysOf(secs, 12) = DaysOfYear(y)

\* the year view of a leap year with the active date in December, reached
\* by a view change: the twelfth section ends on 1 January of the next year
C12_Witness ==
  /\ view = "year"
  /\ step.op = "view"
  /\ getMonth(activeDate) = 11
  /\ IsLeap(getFullYear(activeDate))
  /\ Sections(activeDate, view)[12].end = NewDate(getFullYear(activeDate) + 1, 0, 1)

----------------------------------------------------------------------------
(* Properties of the navigation, under SpecView *)

\* the active date after k steps of goNext (delta = 1) or goPrev
\* (delta = -1) in view v, from the active date d
RECURSIVE Navigate(_, _, _, _)
Navigate(d, v, delta, k) ==
  IF k = 0 THEN d ELSE Navigate(addByView(d, v, delta), v, delta, k - 1)

\* k steps one way and then k steps back, from d in view v
RoundTrip(d, v, delta, k) == Navigate(Navigate(d, v, delta, k), v, -delta, k)

\* C13: in every view and for every k >= 0, goNext k times and then goPrev
\* k times, or goPrev k times and then goNext k times, brings activeDate
\* back to its calendar day; stated for day and week view from every active
\* date, for month and year view from the active dates on day 1 to 28 of
\* their month.
C13_NavigationRoundTrip ==
  (view \in {"day", "week"} \/ getDate(activeDate) <= 28) =>
    \A k \in 0..NavSteps :
      /\ RoundTrip(activeDate, view, 1, k).day = activeDate.day
      /\ RoundTrip(activeDate, view, -1, k).day = activeDate.day

\* month view on 28 December after a goNext: NavSteps steps on lead into
\* the next year and the same steps back return to 28 December
C13_Witness ==
  /\ view = "month"
  /\ step.op = "next"
  /\ getMonth(activeDate) = 11
  /\ getDate(activeDate) = 28
  /\ getFullYear(Navigate(activeDate, view, 1, NavSteps)) = getFullYear(activeDate) + 1
  /\ RoundTrip(activeDate, view, 1, NavSteps) = activeDate

----------------------------------------------------------------------------
(* Properties of gesture start and pointer moves, under SpecLayout *)

\* floor(y / row height) clamped to [0, n - 1]
ClampedRow(y, n) ==
  LET row == y \div rowHeight
  IN  IF row < 0 THEN 0 ELSE IF row > n - 1 THEN n - 1 ELSE row

\* C14: from Idle, a pointer-down on an event without an id leaves the
\* controller Idle, and a pointer-down on an event with an id enters
\* Dragging with the pointer's id, the event's id, the canonical event as
\* origin, deltaDays = 0 and the target row floor(pointer Y / row height)
\* clamped to [0, resourceCount - 1].
C14_PointerDownStartsDrag ==
  [][ (step'.op = "down" /\ drag = NoDrag) =>
        LET ev == step'.event[1]
        IN  IF ev.id = Null THEN drag' = NoDrag
            ELSE /\ drag' # NoDrag
                 /\ drag'[1].pointerId = step'.pointer
                 /\ drag'[1].eventId = ev.id
                 /\ drag'[1].origin = ev
                 /\ drag'[1].deltaDays = 0
                 /\ drag'[1].targetResourceIndex
                      = ClampedRow(drag'[1].startY, Len(resources)) ]_vars

\* n is an integer nearest to the rational a / b, b > 0
IsRound(n, a, b) ==
  LET diff == 2 * (n * b - a)
  IN  -b <= diff /\ diff <= b

\* C15: a pointer-move of the captured pointer while Dragging sets
\* deltaDays = round(dx / cellWidth), dx being the horizontal displacement
\* since the start, and the target row to floor(pointer Y / row height)
\* clamped to [0, resourceCount - 1]; it keeps pointerId, eventId, origin,
\* startX and startY and invokes no callback; a move right by 3 * cellWidth
\* gives deltaDays = 3, a purely vertical move deltaDays = 0 (stated for a
\* list of at least one resource).
C15_MoveUpdatesDrag ==
  [][ ( /\ CapturedDrag
        /\ Len(resources) >= 1
        /\ step'.op = "move"
        /\ step'.pointer = drag[1].pointerId )
      => LET dx == step'.at[1] - drag[1].startX
         IN  /\ drag' # NoDrag
             /\ IsRound(drag'[1].deltaDays, dx * cellWidth.d, cellWidth.n)
             /\ dx * cellWidth.d = 3 * cellWidth.n => drag'[1].deltaDays = 3
             /\ dx = 0 => drag'[1].deltaDays = 0
             /\ drag'[1].targetResourceIndex = ClampedRow(step'.at[2], Len(resources))
             /\ drag'[1].pointerId = drag[1].pointerId
             /\ drag'[1].eventId = drag[1].eventId
             /\ drag'[1].origin = drag[1].origin
             /\ drag'[1].startX = drag[1].startX
             /\ drag'[1].startY = drag[1].startY
             /\ emitted' = <<>> ]_vars

----------------------------------------------------------------------------
(* Properties of the events of other pointers, under Spec *)

\* C16: while Dragging, a pointer-move or pointer-up of a pointer other than
\* the captured one leaves the drag state unchanged (so the controller stays
\* Dragging) and invokes no callback; while Idle, a pointer-move or
\* pointer-up leaves the controller Idle and invokes no callback.
C16_OtherPointerIgnored ==
  [][ ( /\ step'.op \in {"move", "up"}
        /\ (drag = NoDrag \/ step'.pointer # drag[1].pointerId) )
      => /\ drag' = drag
         /\ emitted' = <<>> ]_vars

\* a second pointer has just been released during the gesture of the
\* captured pointer, which goes on
C16_Witness ==
  /\ CapturedDrag
  /\ step.op = "up"
  /\ step.pointer # drag[1].pointerId
  /\ step.outcome = "ignored"
  /\ emitted = <<>>

----------------------------------------------------------------------------
(* Properties of the grid metrics, under SpecLayout *)

\* C17: after any sequence of resizes and view changes cellWidth is a
\* number greater than 5; a resize that leaves (available width / day count)
\* not above 5 sets it to 40, any other resize to that quotient; so the
\* deltaDays a move computes is an integer, one nearest to dx / cellWidth.
C17_CellWidthAboveFive ==
  /\ cellWidth.d > 0
  /\ cellWidth.n > 5 * cellWidth.d
  /\ step.op = "resize" =>
       LET available == Max(0, step.at[1] - resourceColWidth)
           count == Len(getViewModel(activeDate, view).days)
       IN  cellWidth = IF available > 5 * count THEN Ratio(available, count)
                       ELSE Ratio(40, 1)
  /\ (step.op = "move" /\ step.outcome = "moved") =>
       /\ drag[1].deltaDays \in Int
       /\ IsRound(drag[1].deltaDays,
                  (step.at[1] - drag[1].startX) * cellWidth.d, cellWidth.n)

\* a resize in month view to a body 300 pixels wide, which leaves 60 pixels
\* for the days of the month, has set cellWidth to 40
C17_Witness ==
  /\ step.op = "resize"
  /\ step.at = <<300>>
  /\ view = "month"
  /\ cellWidth = Ratio(40, 1)

----------------------------------------------------------------------------
(* Properties of the month navigation, under SpecView *)

\* the months from January of BaseYear to the month of the date d
MonthNumber(d) == (getFullYear(d) - BaseYear) * 12 + getMonth(d)

\* C18: in month view, from every active date, goNext makes the displayed
\* section the calendar month right after the one displayed and goPrev the
\* month right before it; a single step skips no month.
C18_MonthStepAdjacent ==
  [][ (view = "month" /\ step'.op \in {"next", "prev"})
      => MonthNumber(Sections(activeDate', view')[1].start)
           = MonthNumber(Sections(activeDate, view)[1].start)
               + (IF step'.op = "next" THEN 1 ELSE -1) ]_vars

====
